---- MODULE Spec2Model ----
(***************************************************************************)
(* Extension synchronisation of vscode-syncing (src/core/Extension.ts).    *)
(*                                                                         *)
(* One pass of Extension.sync: the delta between the desired extension     *)
(* list and the host registry (_getDifferentExtensions), the three batches *)
(* (_addExtensions, _updateExtensions, _removeExtensions) driven by        *)
(* async.eachSeries, and the final removal of the ".obsolete" marker.      *)
(*                                                                         *)
(* An extension record is [id, version, meta]: id stands for               *)
(* `publisher.name` (the directory name `${publisher}.${name}-${version}`  *)
(* is the pair <<id, version>>), meta says whether __metadata is present.  *)
(* A step of the model is one JavaScript callback run to completion; the   *)
(* asynchronous operations (tmp, https, extract-zip, fs-extra) settle with *)
(* an outcome chosen by the environment.                                   *)
(***************************************************************************)
EXTENDS Integers, Sequences, FiniteSets, TLC

\* Bounds of the explored inputs.
MaxDesired == 2
MaxInstalled == 2
MaxFailures == 1
MaxInvocations == 3

UserIds == {"a.x", "b.y"}
BuiltinIds == {"vscode.git"}
Ids == UserIds \cup BuiltinIds
Versions == {"1.0", "2.0"}
\* Versions are compared for equality only, id by id: installed extensions
\* have the first version, desired records either.
InstalledVersions == {"1.0"}

VARIABLES
    registry,       \* vscode.extensions.all: sequence of [id, version, isBuiltin, meta]
    extensions,     \* argument of sync: [isNull, list]
    showIndicator,  \* argument of sync
    pc,             \* position of the pass
    delta,          \* the value _getDifferentExtensions resolved with
    task,           \* index into tasks of the task that runs (0: none)
    idx,            \* index into the task's extensions of the record in flight
    stage,          \* the asynchronous operation in flight for that record
    steps,          \* the task's local `steps`
    inflight,       \* the record travelling down the promise chain: [zip, path]
    cur,            \* the task's local `result`: [ok, err]
    report,         \* result.extension of sync
    events,         \* calls of Toast.showSpinner, in order
    oplog,          \* operations that settled, in order
    disk,           \* extensions root: <<id, version>> -> "absent" | "partial" | "complete"
    tmpFiles,       \* temporary archives that exist
    tmpDirs,        \* temporary extraction directories that exist
    obsolete,       \* the ".obsolete" marker file exists
    isSyncing,      \* extension.ts: _isSyncing
    chains,         \* the promise chains of accepted commands: [cmd, at, id]
    invoked,        \* number of command invocations so far
    started,        \* number of passes started so far
    token,          \* Syncing settings: a GitHub token is stored
    gistID,         \* Syncing settings: the stored gist id ("" when cleared)
    pendingSaves    \* ids of the saveSettings calls that have not settled

vars == <<registry, extensions, showIndicator, pc, delta, task, idx, stage, steps,
          inflight, cur, report, events, oplog, disk, tmpFiles, tmpDirs, obsolete,
          isSyncing, chains, invoked, started, token, gistID, pendingSaves>>

inputs == <<registry, extensions, showIndicator>>

\* The state of the command layer (extension.ts).
commands == <<isSyncing, chains, invoked, started, token, gistID, pendingSaves>>

\* The state of a pass of Extension.sync.
pass == <<registry, extensions, showIndicator, pc, delta, task, idx, stage, steps,
          inflight, cur, report, events, oplog, disk, tmpFiles, tmpDirs, obsolete>>

----------------------------------------------------------------------------
\* Sequences helpers.

Range(s) == {s[i] : i \in DOMAIN s}

IdsOf(s) == {s[i].id : i \in DOMAIN s}

\* Injective sequences over S of length at most n.
UniqueSeqs(S, n) ==
    {s \in UNION {[1..k -> S] : k \in 0..n} : \A i, j \in DOMAIN s : s[i] = s[j] => i = j}

----------------------------------------------------------------------------
\* The host registry.

\* vscode.extensions.getExtension(id): the entries of the registry with that id
\* (none or one), builtin extensions included.
getExtension(all, id) == {e \in Range(all) : e.id = id}

\* Extension.getAll(includeBuiltin)
Item(ext) == [id |-> ext.id, version |-> ext.version, meta |-> ext.meta]

\* Variant: the filter on isBuiltin is left out.
KeepAll_IncludesBuiltin(all, includeBuiltin) == all

KeepAll(all, includeBuiltin) ==
    SelectSeq(all, LAMBDA ext : includeBuiltin \/ ~ext.isBuiltin)

\* Variant: getAll returns every extension whatever includeBuiltin says.
getAll_IgnoresFlag(all, includeBuiltin) == [i \in DOMAIN all |-> Item(all[i])]

getAll(all, includeBuiltin) ==
    [i \in DOMAIN KeepAll(all, includeBuiltin) |-> Item(KeepAll(all, includeBuiltin)[i])]

----------------------------------------------------------------------------
\* Extension._getDifferentExtensions

EmptyDelta == [added |-> <<>>, updated |-> <<>>, removed |-> <<>>]

\* Variant: the test of the lookup is negated.
IsAdded_Negated(all, ext) == getExtension(all, ext.id) # {}

IsAdded(all, ext) == getExtension(all, ext.id) = {}

IsReserved(all, ext) ==
    \E localExtension \in getExtension(all, ext.id) : localExtension.version = ext.version

IsUpdated(all, ext) ==
    \E localExtension \in getExtension(all, ext.id) : localExtension.version # ext.version

\* Variant: reserved ids are never pushed.
reservedExtensionIDs_NeverPushed(all, list) == {}

reservedExtensionIDs(all, list) == {list[i].id : i \in {j \in DOMAIN list : IsReserved(all, list[j])}}

\* Variant: no installed extension is classified as removed.
IsRemoved_Never(all, list, ext) == FALSE

IsRemoved(all, list, ext) == ext.id \notin reservedExtensionIDs(all, list)

\* Variant: without `if (extensions)`, an absent list read as an empty one.
getDifferentExtensions_NoGuard(all, exts) ==
    [added   |-> SelectSeq(exts.list, LAMBDA ext : IsAdded(all, ext)),
     updated |-> SelectSeq(exts.list, LAMBDA ext : IsUpdated(all, ext)),
     removed |-> SelectSeq(getAll(all, FALSE), LAMBDA ext : IsRemoved(all, exts.list, ext))]

getDifferentExtensions(all, exts) ==
    IF exts.isNull
    THEN EmptyDelta
    ELSE [added   |-> SelectSeq(exts.list, LAMBDA ext : IsAdded(all, ext)),
          updated |-> SelectSeq(exts.list, LAMBDA ext : IsUpdated(all, ext)),
          removed |-> SelectSeq(getAll(all, FALSE), LAMBDA ext : IsRemoved(all, exts.list, ext))]

\* get total()
Total(d) == Len(d.added) + Len(d.removed) + Len(d.updated)

----------------------------------------------------------------------------
\* Extension.sync: the tasks and their options.

\* Variant: the update task is listed before the add task.
Tasks_UpdateFirst == <<"update", "add", "remove">>

Tasks == <<"add", "update", "remove">>

TaskExtensions(kind, d) ==
    CASE kind = "add"    -> d.added
      [] kind = "update" -> d.updated
      [] kind = "remove" -> d.removed

\* Variant: every task starts counting at 0.
Progress_FromZero(kind, d) == 0

Progress(kind, d) ==
    CASE kind = "add"    -> 0
      [] kind = "update" -> Len(d.added)
      [] kind = "remove" -> Len(d.added) + Len(d.updated)

\* The first operation of a record's promise chain.
FirstStage(kind) == IF kind = "remove" THEN "uninstall" ELSE "download"

\* The label of the Toast.showSpinner call made before an operation (none
\* before updateMetadata).
Label(kind, st) ==
    CASE st = "download"                     -> "Downloading"
      [] st = "extract"                      -> "Installing"
      [] st = "uninstall" /\ kind = "update" -> "Removing outdated"
      [] st = "uninstall" /\ kind = "remove" -> "Uninstalling"
      [] OTHER                               -> ""

OkKey(kind) ==
    CASE kind = "add" -> "added" [] kind = "update" -> "updated" [] kind = "remove" -> "removed"

ErrKey(kind) ==
    CASE kind = "add"    -> "addedErrors"
      [] kind = "update" -> "updatedErrors"
      [] kind = "remove" -> "removedErrors"

\* The value a task's promise resolves with.
TaskValue(kind, c) == (OkKey(kind) :> c.ok) @@ (ErrKey(kind) :> c.err)

\* Variant: result.extension = value.
Assign_Replaces(target, value) == value

\* Object.assign(result.extension, value)
Assign(target, value) == value @@ target

NoResult == [ok |-> <<>>, err |-> <<>>]
NoInflight == [zip |-> FALSE, path |-> FALSE]

Kind == Tasks[task]
CurrentItem == TaskExtensions(Kind, delta)[idx]

\* Variant: one directory per extension, `${publisher}.${name}`.
ExtPath_Unversioned(ext, version) == <<ext.id, "1.0">>

\* The directory `${publisher}.${name}-${version}` under the extensions root.
ExtPath(ext, version) == <<ext.id, version>>

\* uninstallExtension: the version of the directory to delete.
UninstallVersion(all, ext) ==
    IF getExtension(all, ext.id) # {}
    THEN (CHOOSE localExtension \in getExtension(all, ext.id) : TRUE).version
    ELSE ext.version

\* Toast.showSpinner(label, steps, total) when showIndicator is set.
ShowSpinner(ev, kind, st, ext, t, i, s) ==
    IF showIndicator /\ Label(kind, st) # ""
    THEN Append(ev, [label |-> Label(kind, st), id |-> ext.id, step |-> s,
                     total |-> Total(delta), task |-> t, idx |-> i])
    ELSE ev

\* The operations that failed so far; the environment fails at most
\* MaxFailures operations of a pass.
Failed(log) == Cardinality({i \in DOMAIN log : ~log[i].ok})

MayFail(outcome) == outcome = "ok" \/ Failed(oplog) < MaxFailures

Settled(op, ok) ==
    Append(oplog, [op |-> op, kind |-> Kind, task |-> task, idx |-> idx,
                   id |-> CurrentItem.id, ok |-> ok])

----------------------------------------------------------------------------
\* async.eachSeries over a task's extensions: with i records done, either
\* the iteratee runs for record i + 1 (steps++, showSpinner, the first
\* operation starts) or the final callback resolves the task with c.
EachSeries(t, i, s, c) ==
    /\ task' = t
    /\ cur' = c
    /\ inflight' = NoInflight
    /\ IF i < Len(TaskExtensions(Tasks[t], delta))
       THEN /\ pc' = "running"
            /\ idx' = i + 1
            /\ steps' = s + 1
            /\ stage' = FirstStage(Tasks[t])
            /\ events' = ShowSpinner(events, Tasks[t], FirstStage(Tasks[t]),
                                     TaskExtensions(Tasks[t], delta)[i + 1], t, i + 1, s + 1)
       ELSE /\ pc' = "taskDone"
            /\ idx' = i
            /\ steps' = s
            /\ stage' = "none"
            /\ events' = events

\* The next `.then` of the record's chain: showSpinner, then the next operation.
Continue(st, carried) ==
    /\ stage' = st
    /\ inflight' = carried
    /\ events' = ShowSpinner(events, Kind, st, CurrentItem, task, idx, steps)
    /\ UNCHANGED <<pc, task, idx, steps, cur>>

\* Variant: done() is called without the push.
Resolved_NoPush == EachSeries(task, idx, steps, cur)

\* The last `.then` of the chain: result.<ok list>.push(item); done().
Resolved == EachSeries(task, idx, steps, [cur EXCEPT !.ok = Append(@, CurrentItem)])

\* Variant: the `.catch` passes the error on, done(err): eachSeries stops
\* and the final callback resolves the task.
Rejected_Aborts ==
    /\ cur' = [cur EXCEPT !.err = Append(@, CurrentItem)]
    /\ inflight' = NoInflight
    /\ pc' = "taskDone"
    /\ stage' = "none"
    /\ UNCHANGED <<task, idx, steps, events>>

\* The `.catch` of the chain: result.<errors list>.push(item); done().
Rejected == EachSeries(task, idx, steps, [cur EXCEPT !.err = Append(@, CurrentItem)])

----------------------------------------------------------------------------
\* The steps of a pass.

\* sync(extensions, showIndicator) is called: _getDifferentExtensions resolves.
GetDifferentExtensions ==
    /\ pc = "idle"
    /\ pc' = "diffed"
    /\ delta' = getDifferentExtensions(registry, extensions)
    /\ UNCHANGED <<commands, inputs, task, idx, stage, steps, inflight, cur, report, events,
                   oplog, disk, tmpFiles, tmpDirs, obsolete>>

\* The `.then((diff) => ...)` of sync: result = { extension: {} }, the first task starts.
RunTasks ==
    /\ pc = "diffed"
    /\ report' = <<>>
    /\ EachSeries(1, 0, Progress(Tasks[1], delta), NoResult)
    /\ UNCHANGED <<commands, inputs, delta, oplog, disk, tmpFiles, tmpDirs, obsolete>>

\* tmp.file: the archive file of the record exists unless its creation
\* failed; nothing unlinks it before the process exits.
TmpFile(files, outcome) ==
    IF outcome = "tmpError" THEN files ELSE files \cup {<<task, idx>>}

\* downloadExtension settles.
DownloadOutcomes == {"tmpError", "httpError", "ok"}

\* Variant: the chain goes on to the next stage after a failed fetch.
DownloadSettled_GoesOn(outcome) ==
    Continue(IF Kind = "add" THEN "extract" ELSE "uninstall",
             [inflight EXCEPT !.zip = (outcome = "ok")])

DownloadSettled(outcome) ==
    IF outcome = "ok"
    THEN Continue(IF Kind = "add" THEN "extract" ELSE "uninstall", [inflight EXCEPT !.zip = TRUE])
    ELSE Rejected

DownloadExtension ==
    /\ pc = "running"
    /\ stage = "download"
    /\ \E outcome \in DownloadOutcomes :
        /\ MayFail(outcome)
        /\ tmpFiles' = TmpFile(tmpFiles, outcome)
        /\ oplog' = Settled("download", outcome = "ok")
        /\ DownloadSettled(outcome)
    /\ UNCHANGED <<commands, inputs, delta, report, disk, tmpDirs, obsolete>>

\* Variant: removal that reports a missing directory as an error.
UninstallOutcomes_RmdirStyle(state) ==
    IF state = "absent" THEN {"error"} ELSE {"ok", "error", "errorPartial"}

\* uninstallExtension settles: fs.remove of a missing directory succeeds.
UninstallOutcomes(state) ==
    IF state = "absent" THEN {"ok"} ELSE {"ok", "error", "errorPartial"}

UninstallSettled(outcome) ==
    IF outcome = "ok"
    THEN IF Kind = "update" THEN Continue("extract", inflight) ELSE Resolved
    ELSE Rejected

UninstallExtension ==
    /\ pc = "running"
    /\ stage = "uninstall"
    /\ LET target == ExtPath(CurrentItem, UninstallVersion(registry, CurrentItem))
       IN \E outcome \in UninstallOutcomes(disk[target]) :
           /\ MayFail(outcome)
           /\ disk' = CASE outcome = "ok"           -> [disk EXCEPT ![target] = "absent"]
                        [] outcome = "errorPartial" -> [disk EXCEPT ![target] = "partial"]
                        [] OTHER                    -> disk
           /\ oplog' = Settled("uninstall", outcome = "ok")
           /\ UninstallSettled(outcome)
    /\ UNCHANGED <<commands, inputs, delta, report, tmpFiles, tmpDirs, obsolete>>

\* Variant: the extraction directory is removed before the promise settles.
TmpDir_Released(dirs, outcome) == dirs

\* tmp.dir: the extraction directory of the record exists unless there was
\* no archive or its creation failed; nothing removes it before the
\* process exits.
TmpDir(dirs, outcome) ==
    IF outcome \in {"noZip", "tmpError"} THEN dirs ELSE dirs \cup {<<task, idx>>}

\* extractExtension settles.
ExtractOutcomes(carried) ==
    IF carried.zip THEN {"tmpError", "unzipError", "emptyDirError", "copyError", "ok"}
    ELSE {"noZip"}

\* Variant: the chain goes on to updateMetadata after a failed install.
ExtractSettled_GoesOn(outcome) ==
    Continue("metadata", [inflight EXCEPT !.path = (outcome = "ok")])

ExtractSettled(outcome) ==
    IF outcome = "ok"
    THEN Continue("metadata", [inflight EXCEPT !.path = TRUE])
    ELSE Rejected

ExtractExtension ==
    /\ pc = "running"
    /\ stage = "extract"
    /\ LET target == ExtPath(CurrentItem, CurrentItem.version)
       IN \E outcome \in ExtractOutcomes(inflight) :
           /\ MayFail(outcome)
           /\ tmpDirs' = TmpDir(tmpDirs, outcome)
           /\ disk' = CASE outcome = "ok"        -> [disk EXCEPT ![target] = "complete"]
                        [] outcome = "copyError" -> [disk EXCEPT ![target] = "partial"]
                        [] OTHER                 -> disk
           /\ oplog' = Settled("extract", outcome = "ok")
           /\ ExtractSettled(outcome)
    /\ UNCHANGED <<commands, inputs, delta, report, tmpFiles, obsolete>>

\* updateMetadata settles: without __metadata or path it resolves at once.
MetadataOutcomes(ext, carried) ==
    IF ext.meta /\ carried.path THEN {"ok", "error"} ELSE {"ok"}

\* Variant: a rejection of updateMetadata is swallowed.
MetadataSettled_Swallowed(outcome) == Resolved

MetadataSettled(outcome) ==
    IF outcome = "ok" THEN Resolved ELSE Rejected

UpdateMetadata ==
    /\ pc = "running"
    /\ stage = "metadata"
    /\ \E outcome \in MetadataOutcomes(CurrentItem, inflight) :
        /\ MayFail(outcome)
        /\ oplog' = Settled("metadata", outcome = "ok")
        /\ MetadataSettled(outcome)
    /\ UNCHANGED <<commands, inputs, delta, report, disk, tmpFiles, tmpDirs, obsolete>>

\* Variant: the series of tasks ends before its last task.
HasNextTask_StopsEarly(t) == t < Len(Tasks) - 1

\* async.eachSeries over the tasks: another task follows task t.
HasNextTask(t) == t < Len(Tasks)

\* The `.then((value) => ...)` of a task: Object.assign, done(); the next
\* task starts, or the final callback starts the removal of ".obsolete".
TaskThen ==
    /\ pc = "taskDone"
    /\ report' = Assign(report, TaskValue(Kind, cur))
    /\ IF HasNextTask(task)
       THEN EachSeries(task + 1, 0, Progress(Tasks[task + 1], delta), NoResult)
       ELSE /\ pc' = "cleanup"
            /\ UNCHANGED <<task, idx, stage, steps, inflight, cur, events>>
    /\ UNCHANGED <<commands, inputs, delta, oplog, disk, tmpFiles, tmpDirs, obsolete>>

\* Variant: `.then(() => resolve(result))` without the `.catch`: a failed
\* removal leaves the promise of sync unresolved, the rejection unhandled.
ObsoleteSettled_NoCatch(outcome) ==
    pc' = IF outcome = "ok" THEN "resolved" ELSE "rejected"

\* `.then(() => resolve(result)).catch(() => resolve(result))`
ObsoleteSettled(outcome) == pc' = "resolved"

\* fs.remove(".obsolete") settles; sync resolves with result either way.
RemoveObsolete ==
    /\ pc = "cleanup"
    /\ \E outcome \in {"ok", "error"} :
        /\ obsolete' = IF outcome = "ok" THEN FALSE ELSE obsolete
        /\ oplog' = Append(oplog, [op |-> "removeObsolete", kind |-> "", task |-> 0, idx |-> 0,
                                   id |-> ".obsolete", ok |-> outcome = "ok"])
        /\ ObsoleteSettled(outcome)
    /\ UNCHANGED <<commands, inputs, delta, task, idx, stage, steps, inflight, cur, report, events,
                   disk, tmpFiles, tmpDirs>>

----------------------------------------------------------------------------
\* The commands of extension.ts: _uploadSettings and _downloadSettings.

GistIDs == {"g1", "g2"}

\* _initGlobals: _isSyncing = false, nothing in flight.
CommandsIdle ==
    /\ isSyncing = FALSE
    /\ chains = <<>>
    /\ invoked = 0
    /\ started = 0
    /\ token = TRUE
    /\ gistID = "g1"
    /\ pendingSaves = <<>>

\* Variant: the test of _isSyncing is left out.
Busy_NeverBusy == FALSE

\* `if (!_isSyncing)`
Busy == isSyncing

RemoveAt(s, k) == [i \in 1..(Len(s) - 1) |-> IF i < k THEN s[i] ELSE s[i + 1]]

\* The command handler: a pass starts unless one is in flight.
Invoke(cmd) ==
    /\ invoked < MaxInvocations
    /\ invoked' = invoked + 1
    /\ IF ~Busy
       THEN /\ isSyncing' = TRUE
            /\ chains' = Append(chains, [cmd |-> cmd, at |-> "prepare", id |-> ""])
            /\ started' = started + 1
       ELSE UNCHANGED <<isSyncing, chains, started>>
    /\ UNCHANGED <<token, gistID, pendingSaves, pass>>

UploadSettings == Invoke("upload")

DownloadSettings == Invoke("download")

\* The end of a chain on the paths that set _isSyncing = false.
Finish(k) ==
    /\ chains' = RemoveAt(chains, k)
    /\ isSyncing' = FALSE

Advance(k, at, id) ==
    /\ chains' = [chains EXCEPT ![k] = [cmd |-> chains[k].cmd, at |-> at, id |-> id]]
    /\ UNCHANGED isSyncing

\* prepareUploadSettings / prepareDownloadSettings settles: it resolves with
\* the settings (token and gist id), or rejects into the outer `.catch`.
PrepareSettled ==
    /\ \E k \in DOMAIN chains :
        /\ chains[k].at = "prepare"
        /\ \E outcome \in {"ok", "rejected"} :
            IF outcome = "ok"
            THEN Advance(k, IF chains[k].cmd = "upload" THEN "getConfigs" ELSE "get", gistID)
            ELSE Finish(k)
    /\ UNCHANGED <<invoked, started, token, gistID, pendingSaves, pass>>

\* _config.getConfigs settles (upload).
GetConfigsSettled ==
    /\ \E k \in DOMAIN chains :
        /\ chains[k].at = "getConfigs"
        /\ \E outcome \in {"ok", "rejected"} :
            IF outcome = "ok" THEN Advance(k, "findAndUpdate", chains[k].id) ELSE Finish(k)
    /\ UNCHANGED <<invoked, started, token, gistID, pendingSaves, pass>>

\* api.findAndUpdate settles (upload): with the gist of the settings, with a
\* new gist (saveSettings is called and not awaited), or with a rejection.
FindAndUpdateSettled ==
    /\ \E k \in DOMAIN chains :
        /\ chains[k].at = "findAndUpdate"
        /\ \E outcome \in {"same", "rejected"} \cup GistIDs :
            /\ pendingSaves' = IF outcome \in GistIDs /\ outcome # chains[k].id
                               THEN Append(pendingSaves, outcome) ELSE pendingSaves
            /\ Finish(k)
    /\ UNCHANGED <<invoked, started, token, gistID, pass>>

\* _syncing.saveSettings settles.
SaveSettingsSettled ==
    /\ pendingSaves # <<>>
    /\ \E outcome \in {"ok", "rejected"} :
        gistID' = IF outcome = "ok" THEN Head(pendingSaves) ELSE gistID
    /\ pendingSaves' = Tail(pendingSaves)
    /\ UNCHANGED <<isSyncing, chains, invoked, started, token, pass>>

\* The inner `.catch((err) => ...)` of _downloadSettings: 401 clears the
\* token, 404 the gist id; reading err.code of a rejection without a value
\* throws, and the outer `.catch` runs. Each path sets _isSyncing = false.
DownloadErrors == {"401", "404", "other", "undefined"}

\* Variant: without the outer `.catch`, the throw on reading err.code of a
\* rejection without a value ends the chain before _isSyncing = false.
DownloadRejected_NoOuterCatch(k, err) ==
    /\ token' = IF err = "401" THEN FALSE ELSE token
    /\ gistID' = IF err = "404" THEN "" ELSE gistID
    /\ chains' = RemoveAt(chains, k)
    /\ isSyncing' = IF err = "undefined" THEN isSyncing ELSE FALSE

DownloadRejected(k, err) ==
    /\ token' = IF err = "401" THEN FALSE ELSE token
    /\ gistID' = IF err = "404" THEN "" ELSE gistID
    /\ Finish(k)

\* api.get settles (download).
GistGetSettled ==
    /\ \E k \in DOMAIN chains :
        /\ chains[k].at = "get"
        /\ \E outcome \in {"ok"} \cup DownloadErrors :
            IF outcome = "ok"
            THEN Advance(k, "saveConfigs", chains[k].id) /\ UNCHANGED <<token, gistID>>
            ELSE DownloadRejected(k, outcome)
    /\ UNCHANGED <<invoked, started, pendingSaves, pass>>

\* _config.saveConfigs settles (download).
SaveConfigsSettled ==
    /\ \E k \in DOMAIN chains :
        /\ chains[k].at = "saveConfigs"
        /\ \E outcome \in {"ok"} \cup DownloadErrors :
            IF outcome = "ok"
            THEN Finish(k) /\ UNCHANGED <<token, gistID>>
            ELSE DownloadRejected(k, outcome)
    /\ UNCHANGED <<invoked, started, pendingSaves, pass>>

----------------------------------------------------------------------------
\* The states a pass starts from.

Registries ==
    {[i \in DOMAIN s |-> [id |-> s[i], version |-> v[i], isBuiltin |-> s[i] \in BuiltinIds,
                          meta |-> FALSE]] :
        <<s, v>> \in {p \in UniqueSeqs(Ids, MaxInstalled) \X UNION {[1..k -> InstalledVersions] : k \in 0..MaxInstalled} :
                        Len(p[1]) = Len(p[2])}}

\* The desired lists: unique ids, and one snapshot carries __metadata on all
\* of its records or on none.
DesiredLists ==
    {[i \in DOMAIN p[1] |-> [id |-> p[1][i], version |-> p[2][i], meta |-> p[3]]] :
        p \in {q \in UniqueSeqs(Ids, MaxDesired)
                        \X (UNION {[1..k -> Versions] : k \in 0..MaxDesired})
                        \X BOOLEAN :
                    Len(q[1]) = Len(q[2])}}

\* Every user extension of the registry has its directory.
InstalledDisk(all) ==
    [d \in Ids \X Versions |->
        IF \E e \in Range(all) : ~e.isBuiltin /\ d = <<e.id, e.version>>
        THEN "complete" ELSE "absent"]

Init ==
    /\ registry \in Registries
    /\ extensions \in {[isNull |-> TRUE, list |-> <<>>]} \cup {[isNull |-> FALSE, list |-> l] : l \in DesiredLists}
    /\ showIndicator \in BOOLEAN
    /\ pc = "idle"
    /\ delta = EmptyDelta
    /\ task = 0
    /\ idx = 0
    /\ stage = "none"
    /\ steps = 0
    /\ inflight = NoInflight
    /\ cur = NoResult
    /\ report = <<>>
    /\ events = <<>>
    /\ oplog = <<>>
    /\ disk = InstalledDisk(registry)
    /\ tmpFiles = {}
    /\ tmpDirs = {}
    /\ obsolete = TRUE
    /\ CommandsIdle

Next ==
    \/ GetDifferentExtensions
    \/ RunTasks
    \/ DownloadExtension
    \/ UninstallExtension
    \/ ExtractExtension
    \/ UpdateMetadata
    \/ TaskThen
    \/ RemoveObsolete

Spec == Init /\ [][Next]_vars

\* Every operation settles and the event loop runs every callback it queued.
FairSpec == Spec /\ WF_vars(Next)

\* The command layer after activation, no pass of Extension.sync under way.
PassIdle ==
    /\ registry = <<>>
    /\ extensions = [isNull |-> TRUE, list |-> <<>>]
    /\ showIndicator = FALSE
    /\ pc = "idle"
    /\ delta = EmptyDelta
    /\ task = 0
    /\ idx = 0
    /\ stage = "none"
    /\ steps = 0
    /\ inflight = NoInflight
    /\ cur = NoResult
    /\ report = <<>>
    /\ events = <<>>
    /\ oplog = <<>>
    /\ disk = InstalledDisk(registry)
    /\ tmpFiles = {}
    /\ tmpDirs = {}
    /\ obsolete = TRUE

CommandInit == CommandsIdle /\ PassIdle

CommandNext ==
    \/ UploadSettings
    \/ DownloadSettings
    \/ PrepareSettled
    \/ GetConfigsSettled
    \/ FindAndUpdateSettled
    \/ SaveSettingsSettled
    \/ GistGetSettled
    \/ SaveConfigsSettled

CommandSpec == CommandInit /\ [][CommandNext]_vars

\* A promise of a command chain settles.
ChainSettled ==
    \/ PrepareSettled
    \/ GetConfigsSettled
    \/ FindAndUpdateSettled
    \/ GistGetSettled
    \/ SaveConfigsSettled

\* Every awaited promise settles.
FairCommandSpec == CommandSpec /\ WF_vars(ChainSettled) /\ WF_vars(SaveSettingsSettled)

----------------------------------------------------------------------------
\* Vocabulary of the properties.

Diffed == pc # "idle"

Desired == extensions.list
DesiredIds == IdsOf(Desired)
RegistryIds == IdsOf(registry)

\* The installed user extensions, in registry order.
Installed == SelectSeq(registry, LAMBDA e : ~e.isBuiltin)

SameExtension(a, b) == a.id = b.id /\ a.version = b.version

\* The desired record has an installed extension of the same id and version.
Unchanged(ext) == \E e \in Range(registry) : SameExtension(e, ext)

\* The desired record is new, or differs in version from the installed one.
Changed(ext) == \A e \in Range(registry) : e.id = ext.id => e.version # ext.version

Count(s, r) == Cardinality({i \in DOMAIN s : s[i] = r})

ReportKeys == {"added", "addedErrors", "updated", "updatedErrors", "removed", "removedErrors"}

\* The list of the report under key k, empty while the key is missing.
Listed(k) == IF k \in DOMAIN report THEN report[k] ELSE <<>>

\* The settled operations of record i of the batch of that kind.
OpsOf(kind, i) == {j \in DOMAIN oplog : oplog[j].kind = kind /\ oplog[j].idx = i}

Attempted(kind, i) == OpsOf(kind, i) # {}

FailedRecords(kind) ==
    {i \in DOMAIN TaskExtensions(kind, delta) : \E j \in OpsOf(kind, i) : ~oplog[j].ok}

Kinds == {"add", "update", "remove"}

----------------------------------------------------------------------------
\* C1: the delta is a disjoint partition: no id is in two of added, updated,
\* removed; added holds only desired ids that are not installed; updated only
\* ids in both with differing versions; removed only installed ids absent
\* from the desired list.
C1_DisjointPartition ==
    Diffed =>
        /\ IdsOf(delta.added) \cap IdsOf(delta.updated) = {}
        /\ IdsOf(delta.added) \cap IdsOf(delta.removed) = {}
        /\ IdsOf(delta.updated) \cap IdsOf(delta.removed) = {}
        /\ \A e \in Range(delta.added) : e.id \in DesiredIds /\ e.id \notin RegistryIds
        /\ \A e \in Range(delta.updated) :
              /\ e \in Range(Desired)
              /\ \E l \in Range(registry) : l.id = e.id /\ l.version # e.version
        /\ \A e \in Range(delta.removed) : e.id \in RegistryIds /\ e.id \notin DesiredIds

\* C2: when every installed id is also desired, removed is empty and total
\* is the number of desired records that are new or differ in version; with
\* [a.x 1.0] installed and [a.x 2.0, b.y 1.0] desired: added = [b.y],
\* updated = [a.x 2.0], removed = [], total = 2.
C2_NothingRemovedWhenCovered ==
    (Diffed /\ ~extensions.isNull /\ IdsOf(Installed) \subseteq DesiredIds) =>
        /\ delta.removed = <<>>
        /\ Total(delta) = Cardinality({i \in DOMAIN Desired : Changed(Desired[i])})
        /\ ( /\ Len(registry) = 1 /\ registry[1].id = "a.x" /\ registry[1].version = "1.0"
             /\ Len(Desired) = 2
             /\ Desired[1].id = "a.x" /\ Desired[1].version = "2.0"
             /\ Desired[2].id = "b.y" /\ Desired[2].version = "1.0" )
           => /\ delta.added = <<Desired[2]>>
              /\ delta.updated = <<Desired[1]>>
              /\ Total(delta) = 2

\* C3: with an empty desired list, removed is every installed user extension
\* in installed order, and added and updated are empty.
C3_EmptyDesiredRemovesAll ==
    (Diffed /\ ~extensions.isNull /\ Desired = <<>>) =>
        /\ delta.added = <<>>
        /\ delta.updated = <<>>
        /\ Len(delta.removed) = Len(Installed)
        /\ \A i \in DOMAIN delta.removed : SameExtension(delta.removed[i], Installed[i])

C3_Witness ==
    /\ Diffed /\ ~extensions.isNull /\ Desired = <<>>
    /\ Len(delta.removed) = 2

\* C4: with nothing installed, added is the desired list in desired order,
\* and updated and removed are empty.
C4_NothingInstalledAddsAll ==
    (Diffed /\ ~extensions.isNull /\ registry = <<>>) =>
        /\ delta.added = Desired
        /\ delta.updated = <<>>
        /\ delta.removed = <<>>

C4_Witness ==
    /\ Diffed /\ ~extensions.isNull /\ registry = <<>>
    /\ Len(delta.added) = 2

\* C5: a desired record whose id is installed with the same version is in
\* none of added, updated, removed, and no operation is ever performed for
\* its id; a pass whose desired list equals the installed set has an empty
\* delta, resolves with six empty lists and leaves every directory as it was.
DesiredIsInstalled ==
    /\ ~extensions.isNull
    /\ {<<e.id, e.version>> : e \in Range(Desired)} = {<<e.id, e.version>> : e \in Range(Installed)}

C5_UnchangedIsReserved ==
    /\ \A e \in Range(Desired) :
          (Diffed /\ Unchanged(e)) =>
              /\ e.id \notin IdsOf(delta.added) \cup IdsOf(delta.updated) \cup IdsOf(delta.removed)
              /\ \A j \in DOMAIN oplog : oplog[j].id # e.id
    /\ DesiredIsInstalled =>
          /\ Diffed => Total(delta) = 0
          /\ disk = InstalledDisk(registry)
          /\ pc = "resolved" =>
                /\ DOMAIN report = ReportKeys
                /\ \A k \in ReportKeys : report[k] = <<>>

C5_Witness ==
    /\ pc = "resolved"
    /\ DesiredIsInstalled
    /\ Len(Desired) = 2

\* C6: a failure of one record at any stage aborts neither the batch nor the
\* pass: when the pass resolves every record of every batch was attempted,
\* and each batch reports one failure per failed record and a success for
\* every other record (N - 1 and 1 when a single record failed).
C6_FailureIsolation ==
    pc = "resolved" =>
        \A kind \in Kinds :
            LET N == Len(TaskExtensions(kind, delta))
                F == Cardinality(FailedRecords(kind))
            IN /\ \A i \in 1..N : Attempted(kind, i)
               /\ Len(Listed(ErrKey(kind))) = F
               /\ Len(Listed(OkKey(kind))) = N - F

C6_Witness ==
    /\ pc = "resolved"
    /\ \E kind \in Kinds :
          /\ Len(TaskExtensions(kind, delta)) = 2
          /\ FailedRecords(kind) = {1}
          /\ Attempted(kind, 2)
          /\ Len(Listed(OkKey(kind))) = 1

\* C7: the batches never interleave: every added record is in added or
\* addedErrors before an operation of an updated record starts, and every
\* updated record is in updated or updatedErrors before an operation of a
\* removed record starts.
Rank(kind) == CASE kind = "add" -> 1 [] kind = "update" -> 2 [] kind = "remove" -> 3 [] OTHER -> 4

Finished(kind) ==
    Len(Listed(OkKey(kind))) + Len(Listed(ErrKey(kind))) = Len(TaskExtensions(kind, delta))

C7_BatchesInSequence ==
    /\ \A i, j \in DOMAIN oplog : i < j => Rank(oplog[i].kind) <= Rank(oplog[j].kind)
    /\ (pc = "running" /\ Kind = "update") => Finished("add")
    /\ (pc = "running" /\ Kind = "remove") => Finished("add") /\ Finished("update")
    /\ (pc = "running" /\ Kind = "add") => ~Attempted("update", 1) /\ ~Attempted("remove", 1)

C7_Witness ==
    /\ pc = "resolved"
    /\ delta.added # <<>> /\ delta.updated # <<>> /\ delta.removed # <<>>

\* C8: the step is incremented once per attempted record: the k-th attempted
\* record of the pass (added, then updated, then removed) reports step k at
\* each of its stages, so the reported steps never decrease, stay within
\* 1..total, and total is the step of the last record of the pass only.
Ordinal(kind, i) ==
    CASE kind = "add"    -> i
      [] kind = "update" -> Len(delta.added) + i
      [] kind = "remove" -> Len(delta.added) + Len(delta.updated) + i

LastRecord(kind, i) ==
    /\ i = Len(TaskExtensions(kind, delta))
    /\ \A later \in Kinds : Rank(later) > Rank(kind) => TaskExtensions(later, delta) = <<>>

C8_StepPerRecord ==
    /\ \A n \in DOMAIN events :
          /\ events[n].step = Ordinal(Tasks[events[n].task], events[n].idx)
          /\ events[n].step \in 1..events[n].total
          /\ events[n].total = Total(delta)
          /\ events[n].step = Total(delta) <=> LastRecord(Tasks[events[n].task], events[n].idx)
    /\ \A m, n \in DOMAIN events : m < n => events[m].step <= events[n].step
    /\ pc = "running" =>
          /\ steps = Ordinal(Kind, idx)
          /\ steps = Total(delta) <=> LastRecord(Kind, idx)

C8_Witness ==
    /\ pc = "resolved"
    /\ delta.added # <<>> /\ delta.updated # <<>> /\ delta.removed # <<>>
    /\ Len(events) >= 6
    /\ events[Len(events)].step = Total(delta)
    /\ events[Len(events)].label = "Uninstalling"

\* C9: when sync resolves the report has the six lists, every record of each
\* delta list is exactly once in exactly one of its two report lists, and the
\* report holds no record that is not in the delta.
Accounted(list, ok, err) ==
    /\ \A r \in Range(list) : Count(ok, r) + Count(err, r) = 1
    /\ Range(ok) \cup Range(err) \subseteq Range(list)

C9_CompleteAccounting ==
    pc = "resolved" =>
        /\ DOMAIN report = ReportKeys
        /\ \A kind \in Kinds :
              Accounted(TaskExtensions(kind, delta), Listed(OkKey(kind)), Listed(ErrKey(kind)))

C9_Witness ==
    /\ pc = "resolved"
    /\ Len(Listed("added")) = 1
    /\ Len(Listed("updatedErrors")) = 1
    /\ Len(Listed("removed")) = 1

\* C10 as stated: a record whose fetch and install succeeded and whose
\* metadata patch failed is reported in added (updated), not in addedErrors
\* (updatedErrors).
MetadataFailed(kind, i) ==
    \E j \in OpsOf(kind, i) : oplog[j].op = "metadata" /\ ~oplog[j].ok

InstallSucceeded(kind, i) ==
    /\ \E j \in OpsOf(kind, i) : oplog[j].op = "download" /\ oplog[j].ok
    /\ \E j \in OpsOf(kind, i) : oplog[j].op = "extract" /\ oplog[j].ok

ReportedOk(kind, i) ==
    /\ TaskExtensions(kind, delta)[i] \in Range(Listed(OkKey(kind)))
    /\ TaskExtensions(kind, delta)[i] \notin Range(Listed(ErrKey(kind)))

ReportedFailed(kind, i) ==
    /\ TaskExtensions(kind, delta)[i] \in Range(Listed(ErrKey(kind)))
    /\ TaskExtensions(kind, delta)[i] \notin Range(Listed(OkKey(kind)))

C10_MetadataFailureNonFatal ==
    pc = "resolved" =>
        \A kind \in {"add", "update"} : \A i \in DOMAIN TaskExtensions(kind, delta) :
            (InstallSucceeded(kind, i) /\ MetadataFailed(kind, i)) => ReportedOk(kind, i)

\* C10 amended: a metadata-patch failure fails the record: when fetch and
\* install succeed and updateMetadata then fails, the record is reported in
\* addedErrors (updatedErrors), not in added (updated).
C10_MetadataFailureFatal ==
    pc = "resolved" =>
        \A kind \in {"add", "update"} : \A i \in DOMAIN TaskExtensions(kind, delta) :
            (InstallSucceeded(kind, i) /\ MetadataFailed(kind, i)) => ReportedFailed(kind, i)

C10_Witness ==
    /\ pc = "resolved"
    /\ \E kind \in {"add", "update"} : \E i \in DOMAIN TaskExtensions(kind, delta) :
          /\ InstallSucceeded(kind, i) /\ MetadataFailed(kind, i)
          /\ disk[ExtPath(TaskExtensions(kind, delta)[i], TaskExtensions(kind, delta)[i].version)] = "complete"

\* C11: the promise of sync never rejects and, every operation settling,
\* eventually resolves with the merged report, whichever record operations
\* fail and whether or not the removal of the marker file fails.
C11_AlwaysResolves ==
    /\ [](pc # "rejected")
    /\ <>(pc = "resolved" /\ DOMAIN report = ReportKeys)

C11_Witness ==
    /\ pc = "resolved"
    /\ DOMAIN report = ReportKeys
    /\ \E j \in DOMAIN oplog : oplog[j].op # "removeObsolete" /\ ~oplog[j].ok
    /\ \E j \in DOMAIN oplog : oplog[j].op = "removeObsolete" /\ ~oplog[j].ok

\* C12: while a pass is in flight a further invocation of a command starts
\* no pass, changes no state and is not queued (a pass starts only in the
\* step of an invocation made while idle); at most one pass is in flight.
C12_BusyGuard ==
    /\ [](Len(chains) <= 1 /\ (chains # <<>> => isSyncing))
    /\ [][(invoked' # invoked /\ isSyncing)
            => UNCHANGED <<isSyncing, chains, started, token, gistID, pendingSaves>>]_vars
    /\ [][(started' # started \/ Len(chains') > Len(chains))
            => (invoked' = invoked + 1 /\ ~isSyncing /\ started' = started + 1)]_vars

C12_Witness ==
    /\ isSyncing
    /\ Len(chains) = 1
    /\ chains[1].at # "prepare"
    /\ invoked = 3
    /\ started = 1

\* The directory that uninstallExtension removes for the record in flight.
UninstallTarget == ExtPath(CurrentItem, UninstallVersion(registry, CurrentItem))

UninstallInFlight == pc = "running" /\ stage = "uninstall"

\* C13: uninstalling a record whose directory does not exist resolves and
\* leaves the disk as it is; an uninstall rejects only when the directory
\* was there and the filesystem reported an error.
C13_UninstallIdempotent ==
    /\ [][(UninstallInFlight /\ disk[UninstallTarget] = "absent")
            => (/\ disk' = disk
                /\ Len(oplog') = Len(oplog) + 1
                /\ oplog'[Len(oplog')].op = "uninstall"
                /\ oplog'[Len(oplog')].ok)]_vars
    /\ [][(UninstallInFlight /\ Len(oplog') > Len(oplog) /\ ~oplog'[Len(oplog')].ok)
            => disk[UninstallTarget] # "absent"]_vars

\* The same extension was uninstalled twice, successfully both times.
C13_Witness ==
    \E j, k \in DOMAIN oplog :
        /\ j < k
        /\ oplog[j].op = "uninstall" /\ oplog[j].ok
        /\ oplog[k].op = "uninstall" /\ oplog[k].ok
        /\ oplog[j].id = oplog[k].id
        /\ \A v \in Versions : disk[<<oplog[k].id, v>>] = "absent"

\* The position of the record with that id in a list without repeated ids.
Index(s, id) == CHOOSE i \in DOMAIN s : s[i].id = id

\* The records of s are records of t, in the order they have in t.
FollowsOrder(s, t) ==
    /\ IdsOf(s) \subseteq IdsOf(t)
    /\ \A i, j \in DOMAIN s : i < j => Index(t, s[i].id) < Index(t, s[j].id)

\* The settled operations on records (the removal of the marker is not one).
RecordOps == {j \in DOMAIN oplog : oplog[j].op # "removeObsolete"}

\* Record (t1, i1) comes before record (t2, i2) of the pass, or is the same.
NotAfter(t1, i1, t2, i2) == t1 < t2 \/ (t1 = t2 /\ i1 <= i2)

\* C14: one record at a time: while record idx of a batch is in flight the
\* success and errors lists of the batch hold exactly the idx - 1 records
\* before it; the operations of the pass are settled record by record in
\* the order of the delta lists, none for a record once a later one has
\* started; the delta lists follow the order of the desired list (added,
\* updated) and of the installed extensions (removed).
C14_OneRecordAtATime ==
    Diffed =>
        /\ pc = "running" =>
            /\ Len(cur.ok) + Len(cur.err) = idx - 1
            /\ Range(cur.ok) \cup Range(cur.err)
                 = {TaskExtensions(Kind, delta)[i] : i \in 1..(idx - 1)}
            /\ \A j \in RecordOps : NotAfter(oplog[j].task, oplog[j].idx, task, idx)
        /\ \A j, k \in RecordOps :
              j < k => NotAfter(oplog[j].task, oplog[j].idx, oplog[k].task, oplog[k].idx)
        /\ FollowsOrder(delta.added, Desired)
        /\ FollowsOrder(delta.updated, Desired)
        /\ FollowsOrder(delta.removed, registry)

\* The second record of a batch is past its first stage, the first record
\* of the batch in the errors list.
C14_Witness ==
    /\ pc = "running"
    /\ idx = 2
    /\ stage \notin {"none", FirstStage(Kind)}
    /\ cur.ok = <<>>
    /\ cur.err = <<TaskExtensions(Kind, delta)[1]>>

\* The success and errors lists of a batch: the lists of the task while it
\* runs, the lists of the report afterwards.
InTask(kind) == task = Rank(kind) /\ pc \in {"running", "taskDone"}

OkList(kind) == IF InTask(kind) THEN cur.ok ELSE Listed(OkKey(kind))

ErrList(kind) == IF InTask(kind) THEN cur.err ELSE Listed(ErrKey(kind))

UpdatePipeline == <<"download", "uninstall", "extract", "metadata">>

\* The place of operation j among the settled operations of its record.
Place(j) == Cardinality({k \in OpsOf(oplog[j].kind, oplog[j].idx) : k <= j})

FetchFailed(kind, i) == \E j \in OpsOf(kind, i) : oplog[j].op = "download" /\ ~oplog[j].ok

\* The version directory of the installed extension with the id of ext.
OldPath(ext) == ExtPath(ext, UninstallVersion(registry, ext))

InstalledOnDisk(id) == \E v \in Versions : disk[<<id, v>>] = "complete"

\* C16: when the pass resolves, every updated record in updatedErrors whose
\* installed extension is a user extension still has a complete version
\* directory, old or new, on disk.
C16_NoCorruption ==
    pc = "resolved" =>
        \A r \in Range(Listed("updatedErrors")) :
            (\E e \in Range(Installed) : e.id = r.id) => InstalledOnDisk(r.id)

\* Record i of task t is the record in flight.
InFlight(t, i) == pc = "running" /\ task = t /\ idx = i

\* The settled operations of that name on record i of task t.
Ran(op, t, i) == {j \in DOMAIN oplog : oplog[j].op = op /\ oplog[j].task = t /\ oplog[j].idx = i}

\* C17: once a record has reached its terminal state its temporary archive
\* file and its temporary extraction directory no longer exist: only the
\* record in flight has scratch resources.
C17_ScratchReleased ==
    \A r \in tmpFiles \cup tmpDirs : InFlight(r[1], r[2])

\* C17 amended: scratch resources are owned by one record but not released
\* during the pass: the archive file of every record whose fetch succeeded
\* and the extraction directory of every record whose install succeeded
\* exist from then on, while later records are processed and when the pass
\* resolves; no step of the pass removes a scratch resource.
C17_ScratchKept ==
    /\ [](\A j \in DOMAIN oplog :
            /\ (oplog[j].op = "download" /\ oplog[j].ok) => <<oplog[j].task, oplog[j].idx>> \in tmpFiles
            /\ (oplog[j].op = "extract" /\ oplog[j].ok) => <<oplog[j].task, oplog[j].idx>> \in tmpDirs)
    /\ [](\A r \in tmpFiles : Ran("download", r[1], r[2]) # {})
    /\ [](\A r \in tmpDirs : Ran("extract", r[1], r[2]) # {})
    /\ [][tmpFiles \subseteq tmpFiles' /\ tmpDirs \subseteq tmpDirs']_vars

\* The pass resolved; the archive and the extraction directory of an
\* installed record, and the archive of a failed record, are still there.
C17_Witness ==
    /\ pc = "resolved"
    /\ \E r \in tmpFiles \cap tmpDirs : \E j \in Ran("extract", r[1], r[2]) : oplog[j].ok
    /\ \E r \in tmpFiles : \E j \in DOMAIN oplog :
          oplog[j].task = r[1] /\ oplog[j].idx = r[2] /\ ~oplog[j].ok

\* Record i of the batch of that kind has reached its terminal outcome.
Terminal(kind, i) ==
    \/ pc \in {"cleanup", "resolved"}
    \/ pc \in {"running", "taskDone"} /\ Rank(kind) < task
    \/ pc = "taskDone" /\ Rank(kind) = task
    \/ pc = "running" /\ Rank(kind) = task /\ i < idx

Stages(kind) ==
    CASE kind = "add"    -> <<"download", "extract", "metadata">>
      [] kind = "update" -> UpdatePipeline
      [] kind = "remove" -> <<"uninstall">>

Records == {r \in Kinds \X (1..(MaxDesired + MaxInstalled)) : r[2] \in DOMAIN TaskExtensions(r[1], delta)}

\* C18: a record that reached its terminal outcome is exactly once in
\* exactly one of the success and errors lists of its batch, a record that
\* has not is in neither; it is in the success list exactly when every
\* stage of its pipeline succeeded, in the errors list exactly when a stage
\* failed, and the failed stage (any stage) is the last one that ran; once
\* the outcome is recorded no operation of the record is settled any more.
C18_OneTerminalOutcome ==
    /\ [](Diffed => \A r \in Records :
            LET kind == r[1]
                i == r[2]
                item == TaskExtensions(kind, delta)[i]
                ops == OpsOf(kind, i)
                inOk == Count(OkList(kind), item)
                inErr == Count(ErrList(kind), item)
            IN /\ Terminal(kind, i) => inOk + inErr = 1
               /\ ~Terminal(kind, i) => inOk + inErr = 0
               /\ \A j \in ops :
                     /\ Place(j) <= Len(Stages(kind))
                     /\ oplog[j].op = Stages(kind)[Place(j)]
                     /\ ~oplog[j].ok => \A k \in ops : k <= j
               /\ inOk = 1 <=> (/\ Cardinality(ops) = Len(Stages(kind))
                                /\ \A j \in ops : oplog[j].ok
                                /\ Terminal(kind, i))
               /\ inErr = 1 <=> \E j \in ops : ~oplog[j].ok)
    /\ [][\A r \in Records : Terminal(r[1], r[2]) => OpsOf(r[1], r[2])' = OpsOf(r[1], r[2])]_vars

\* The pass resolved with a record that failed at its install stage, after
\* a successful fetch, and a record of the same batch that succeeded.
C18_Witness ==
    /\ pc = "resolved"
    /\ \E kind \in {"add", "update"} :
          /\ Listed(OkKey(kind)) # <<>>
          /\ \E j \in DOMAIN oplog : oplog[j].kind = kind /\ oplog[j].op = "extract" /\ ~oplog[j].ok

ObsoleteOps == {j \in DOMAIN oplog : oplog[j].op = "removeObsolete"}

\* C19: the removal of the marker file is attempted once per pass: not
\* before the removed batch (and the two before it) is finished, exactly
\* once when sync has resolved, as the last operation of the pass; the step
\* that settles it resolves sync with the report as it was, whether the
\* removal succeeded or failed.
C19_MarkerRemovedOnce ==
    /\ [](Cardinality(ObsoleteOps) = IF pc = "resolved" THEN 1 ELSE 0)
    /\ [](\A j \in ObsoleteOps : j = Len(oplog))
    /\ [](pc \in {"cleanup", "resolved"} =>
            /\ DOMAIN report = ReportKeys
            /\ \A kind \in Kinds : Finished(kind)
            /\ \A r \in Records : Terminal(r[1], r[2]))
    /\ [][pc = "cleanup" => (pc' = "resolved" /\ report' = report /\ disk' = disk)]_vars

\* The pass resolved after a failed removal of the marker file, with
\* records in the removed batch.
C19_Witness ==
    /\ pc = "resolved"
    /\ obsolete
    /\ \E j \in ObsoleteOps : ~oplog[j].ok
    /\ Len(Listed("removed")) + Len(Listed("removedErrors")) > 0

\* The desired list with no records.
EmptyList == [isNull |-> FALSE, list |-> <<>>]

\* C20: the delta of an absent desired list is the delta of an empty
\* desired list.
C20_AbsentIsEmpty ==
    (Diffed /\ extensions.isNull) => delta = getDifferentExtensions(registry, EmptyList)

\* C20 amended: an absent desired list gives the empty delta: the pass
\* attempts no record, leaves the extension directories as they are and
\* resolves with six empty lists; an empty desired list instead puts every
\* installed user extension in removed, so the two deltas are the same only
\* when no user extension is installed.
C20_AbsentIsNoOp ==
    (Diffed /\ extensions.isNull) =>
        /\ delta = EmptyDelta
        /\ Total(delta) = 0
        /\ RecordOps = {}
        /\ events = <<>>
        /\ disk = InstalledDisk(registry)
        /\ pc = "resolved" => DOMAIN report = ReportKeys /\ \A k \in ReportKeys : report[k] = <<>>
        /\ Len(getDifferentExtensions(registry, EmptyList).removed) = Len(Installed)
        /\ IdsOf(getDifferentExtensions(registry, EmptyList).removed) = IdsOf(Installed)
        /\ delta = getDifferentExtensions(registry, EmptyList) <=> Installed = <<>>

\* A pass for an absent desired list resolved with user extensions installed.
C20_Witness ==
    /\ pc = "resolved"
    /\ extensions.isNull
    /\ Len(Installed) = 2
    /\ disk = InstalledDisk(registry)
    /\ DOMAIN report = ReportKeys

\* The version directories under the extensions root, complete or not.
Dirs == {d \in Ids \X Versions : disk[d] # "absent"}

\* The directories `${publisher}.${name}-${version}` of the desired records.
DesiredDirs == {ExtPath(Desired[i], Desired[i].version) : i \in DOMAIN Desired}

\* The pass resolved and every operation on a record succeeded.
AllSucceeded == pc = "resolved" /\ \A j \in RecordOps : oplog[j].ok

NoBuiltinDesired == \A e \in Range(registry) : e.isBuiltin => e.id \notin DesiredIds

InstalledByPass ==
    {ExtPath(TaskExtensions(oplog[j].kind, delta)[oplog[j].idx],
             TaskExtensions(oplog[j].kind, delta)[oplog[j].idx].version) :
        j \in {k \in DOMAIN oplog : oplog[k].op = "extract" /\ oplog[k].ok}}

\* C22: an uninstall of the removed batch never targets a directory that
\* an install of the same pass wrote: its target is the version directory
\* of the registry entry; every directory installed by the pass, that of
\* each updated record in particular, is complete when sync resolves.
C22_RemovedSparesInstalled ==
    /\ (UninstallInFlight /\ task = Rank("remove")) =>
          /\ UninstallTarget \notin InstalledByPass
          /\ \E e \in Range(registry) : UninstallTarget = <<e.id, e.version>>
    /\ pc = "resolved" =>
          /\ \A d \in InstalledByPass : disk[d] = "complete"
          /\ \A i \in DOMAIN delta.updated : ReportedOk("update", i) =>
                disk[ExtPath(delta.updated[i], delta.updated[i].version)] = "complete"

\* The update of a user extension succeeded, the removed batch uninstalled
\* the same id, and the new version directory is there when sync resolves.
C22_Witness ==
    /\ pc = "resolved"
    /\ \E i \in DOMAIN delta.updated :
          /\ ReportedOk("update", i)
          /\ \E j \in DOMAIN oplog :
                /\ oplog[j].kind = "remove" /\ oplog[j].ok
                /\ oplog[j].id = delta.updated[i].id
          /\ disk[ExtPath(delta.updated[i], delta.updated[i].version)] = "complete"

\* C23: the busy flag is set only while a chain is in flight and, every
\* awaited promise settling, becomes false again on every path; an
\* invocation made while it is false starts a pass.
C23_NeverStuck ==
    /\ [](isSyncing => chains # <<>>)
    /\ (isSyncing ~> ~isSyncing)
    /\ [][(invoked' # invoked /\ ~isSyncing) => (started' = started + 1 /\ isSyncing')]_vars

\* A download was rejected with code 401 (the token is cleared), the flag
\* was reset, and a later invocation was accepted.
C23_Witness ==
    /\ ~token
    /\ started >= 2
    /\ isSyncing
    /\ chains # <<>>

\* The ids of the builtin extensions of the registry.
BuiltinInstalled == {e.id : e \in {x \in Range(registry) : x.isBuiltin}}

\* C24: removed holds only installed extensions that are not builtin, also
\* when the id of a builtin extension is not desired; the lookup for the
\* desired records sees builtin extensions: a desired record with the id of
\* a builtin extension is never added, and is updated exactly when its
\* version differs.
C24_BuiltinNeverRemoved ==
    Diffed =>
        /\ IdsOf(delta.removed) \cap BuiltinInstalled = {}
        /\ IdsOf(delta.removed) \subseteq IdsOf(Installed)
        /\ \A r \in Range(Desired) : r.id \in BuiltinInstalled =>
              /\ r \notin Range(delta.added)
              /\ r \in Range(delta.updated) <=> \E e \in Range(registry) : e.id = r.id /\ e.version # r.version

\* A builtin extension is installed and not desired; a user extension is
\* removed, the builtin one is not.
C24_Witness ==
    /\ Diffed
    /\ ~extensions.isNull
    /\ BuiltinInstalled # {}
    /\ BuiltinInstalled \cap DesiredIds = {}
    /\ delta.removed # <<>>
    /\ IdsOf(delta.removed) \cap BuiltinInstalled = {}

====
